---- MODULE Spec2Model ----
(***************************************************************************)
(* Model of app/core/summarizer.py (class LlamaSummarizer): the output     *)
(* parser _parse_llm_output, the text splitter configured in __init__,     *)
(* and the summarize pipeline that drives the map-reduce chain; and of     *)
(* app/api/routes.py: get_summarizer and the /api/summarize handler.       *)
(*                                                                         *)
(* Text.  A Python str is modelled as a sequence of fragments.  A fragment *)
(* is a single character ("x", " ", "\n", "-", "1", ".") or one of a few   *)
(* fixed multi-character pieces that the code treats as a unit: the two    *)
(* output markers (in two spellings each, upper and lower case) and the    *)
(* literal message / prefix strings of the source.  The markers            *)
(* "FINAL SUMMARY:" and "KEY CONCEPTS:" each contain ':' only as their     *)
(* last character, so two marker occurrences in a str never overlap and    *)
(* the decomposition of a str into marker fragments and other characters   *)
(* is unique: searching the fragment sequence is searching the str.        *)
(***************************************************************************)
EXTENDS Integers, Sequences, FiniteSets, TLC

VARIABLES
    llm_output,     \* _parse_llm_output: its argument
    parsed,         \* _parse_llm_output: its return value, or NoValue before the call
    chunk_size,     \* text_splitter: chunk_size
    chunk_overlap,  \* text_splitter: chunk_overlap
    text,           \* text_splitter.split_text: its argument
    chunks,         \* text_splitter.split_text: its return value (<<>> before the call)
    pc,             \* where the running call stands
    article_data,   \* summarize: its argument
    input_text,     \* summarize: the prepared text
    texts,          \* summarize: the chunks split_text returned
    map_status,     \* chain: per chunk, "pending", "outstanding" or "returned"
    map_results,    \* chain: per chunk, the reply of its map call (0: none yet)
    completion_order, \* chain: the chunks in the order their map calls returned
    calls,          \* every call made to the splitter, the model and the parser, in order
    llm_output_text, \* summarize: the chain's output_text
    result,         \* summarize: the dict it returns
    ret,            \* summarize: "running", "returned" or "raised"
    failed_stage,   \* the step that raised: "none", "split", "map" or "reduce"
    summarizer,     \* routes.py: the global summarizer (0: None, else the instance)
    instances,      \* the number of LlamaSummarizer objects constructed so far
    api_key,        \* os.environ has GROQ_API_KEY
    requests        \* per request thread of /api/summarize: where it stands and its locals

parseVars == <<llm_output, parsed>>
splitVars == <<text, chunks>>
configVars == <<chunk_size, chunk_overlap>>
chainVars == <<map_status, map_results, completion_order>>
pipelineVars == <<article_data, input_text, texts, map_status, map_results,
                  completion_order, calls, llm_output_text, result, ret,
                  failed_stage>>
routeVars == <<summarizer, instances, api_key, requests>>
vars == <<llm_output, parsed, chunk_size, chunk_overlap, text, chunks, pc,
          article_data, input_text, texts, map_status, map_results,
          completion_order, calls, llm_output_text, result, ret, failed_stage,
          summarizer, instances, api_key, requests>>

NoValue == [none |-> TRUE]

(***************************************************************************)
(* Bounds of the model.                                                    *)
(***************************************************************************)
MaxRaw == 5         \* longest raw model output, in fragments
MaxText == 6        \* longest text handed to the splitter alone, in characters
MaxChunkSize == 3   \* largest chunk_size tried on the splitter alone
PipelineChunkSize == 16     \* chunk_size the pipeline runs with (4000 in the code)
PipelineChunkOverlap == 2   \* chunk_overlap the pipeline runs with (200 in the code)
MaxRequests == 2    \* requests to /api/summarize served at the same time

(***************************************************************************)
(* The parts of the state a specification does not use stay as they are.   *)
(***************************************************************************)
ParserIdle == llm_output = <<>> /\ parsed = NoValue
SplitterIdle == text = <<>> /\ chunks = <<>>
PipelineIdle ==
    /\ article_data = NoValue
    /\ input_text = <<>>
    /\ texts = <<>>
    /\ map_status = <<>>
    /\ map_results = <<>>
    /\ completion_order = <<>>
    /\ calls = <<>>
    /\ llm_output_text = <<>>
    /\ result = NoValue
    /\ ret = "running"
    /\ failed_stage = "none"
RoutesIdle ==
    /\ summarizer = 0
    /\ instances = 0
    /\ api_key = TRUE
    /\ requests = <<>>

(***************************************************************************)
(* Sequence helpers.                                                       *)
(***************************************************************************)
SetMin(S) == CHOOSE m \in S : \A k \in S : m <= k
SetMax(S) == CHOOSE m \in S : \A k \in S : m >= k

\* Python slice s[i:j] with 0-based i (inclusive) and j (exclusive), 0 <= i <= j <= len.
Slice(s, i, j) == SubSeq(s, i + 1, j)

\* All sequences over S of length at most n.
SeqsUpTo(S, n) == UNION {[1..k -> S] : k \in 0..n}

(***************************************************************************)
(* Characters.  \s of the re module and str.strip() agree on whitespace.   *)
(***************************************************************************)
Whitespace == {" ", "\n"}
BulletChars == {"-", "*"}       \* [-*•]; the model's alphabet holds "-" and "*"
Digits == {"1"}                 \* \d
FinalSummaryMarkers == {"FINAL SUMMARY:", "final summary:"}   \* re.IGNORECASE
KeyConceptsMarkers == {"KEY CONCEPTS:", "key concepts:"}      \* re.IGNORECASE

\* First index >= i (0-based) holding a non-whitespace fragment, or Len(t).
SkipWs(t, i) ==
    LET rest == {k \in i..(Len(t) - 1) : t[k + 1] \notin Whitespace}
    IN  IF rest = {} THEN Len(t) ELSE SetMin(rest)

\* str.strip()
Strip(s) ==
    LET keep == {k \in 1..Len(s) : s[k] \notin Whitespace}
    IN  IF keep = {} THEN <<>> ELSE SubSeq(s, SetMin(keep), SetMax(keep))

(***************************************************************************)
(* _parse_llm_output (summarizer.py:133-161).                              *)
(***************************************************************************)

\* re.search(r"FINAL SUMMARY:(.*?)KEY CONCEPTS:", s, IGNORECASE | DOTALL):
\* the leftmost FINAL SUMMARY: that has a KEY CONCEPTS: somewhere after it,
\* and (lazy group) the nearest KEY CONCEPTS: after it.  Indices are 1-based
\* positions of the two marker fragments; NoValue when there is no match.
SummaryMatch(s) ==
    LET starts == {i \in 1..Len(s) :
                      /\ s[i] \in FinalSummaryMarkers
                      /\ \E j \in (i + 1)..Len(s) : s[j] \in KeyConceptsMarkers}
    IN  IF starts = {} THEN NoValue
        ELSE LET i == SetMin(starts)
                 j == SetMin({k \in (i + 1)..Len(s) : s[k] \in KeyConceptsMarkers})
             IN  [fs |-> i, kc |-> j, group |-> SubSeq(s, i + 1, j - 1)]

\* re.search(r"KEY CONCEPTS:(.*)", s, IGNORECASE | DOTALL): the leftmost
\* KEY CONCEPTS: of the whole string; the group runs to the end of the string.
ConceptsMatch(s) ==
    LET ks == {k \in 1..Len(s) : s[k] \in KeyConceptsMarkers}
    IN  IF ks = {} THEN NoValue
        ELSE [kc |-> SetMin(ks), group |-> SubSeq(s, SetMin(ks) + 1, Len(s))]

\* (?:[-*•]|\d+\.) at 0-based position a of t: the position after the
\* marker, or -1 when no marker starts at a.  \d+ is greedy and must be
\* followed by "."; giving a digit back leaves a digit, not ".", in front.
BulletEnd(t, a) ==
    IF a < Len(t) /\ t[a + 1] \in BulletChars THEN a + 1
    ELSE LET nondig == {k \in a..(Len(t) - 1) : t[k + 1] \notin Digits}
             d == IF nondig = {} THEN Len(t) ELSE SetMin(nondig)
         IN  IF d > a /\ d < Len(t) /\ t[d + 1] = "." THEN d + 1 ELSE -1

\* ^ under re.MULTILINE, at 0-based position p.
AtLineStart(t, p) == p = 0 \/ t[p] = "\n"

\* One match of r"^\s*(?:[-*•]|\d+\.)\s*(.*?)\s*$" (MULTILINE, no DOTALL)
\* whose marker ends at 0-based position b.  Both \s* are greedy and also
\* run over "\n"; (.*?) is lazy and stops at the first place from which
\* only whitespace is left on its line; the trailing \s* then runs as far
\* as the last "\n" of the whitespace run, or to the end of the string.
MatchFrom(t, b) ==
    LET c == SkipWs(t, b)
        nls == {k \in c..(Len(t) - 1) : t[k + 1] = "\n"}
        n == IF nls = {} THEN Len(t) ELSE SetMin(nls)
        nonws == {k \in c..(n - 1) : t[k + 1] \notin Whitespace}
        e == IF nonws = {} THEN c ELSE SetMax(nonws) + 1
        g == SkipWs(t, e)
        f == IF g = Len(t) THEN g
             ELSE SetMax({k \in e..(g - 1) : t[k + 1] = "\n"})
    IN  [group |-> Slice(t, c, e), end |-> f]

\* re.findall(pattern, t, re.MULTILINE) from 0-based position pos on: the
\* groups of the successive non-overlapping matches, leftmost first.
RECURSIVE FindAllFrom(_, _)
FindAllFrom(t, pos) ==
    LET cands == {s \in pos..Len(t) :
                     AtLineStart(t, s) /\ BulletEnd(t, SkipWs(t, s)) # -1}
    IN  IF cands = {} THEN <<>>
        ELSE LET s == SetMin(cands)
                 m == MatchFrom(t, BulletEnd(t, SkipWs(t, s)))
             IN  <<m.group>> \o FindAllFrom(t, m.end)

FindAll(t) == FindAllFrom(t, 0)

\* [concept.strip() for concept in raw_concepts if concept.strip()]
RECURSIVE NonEmptyStripped(_)
NonEmptyStripped(groups) ==
    IF groups = <<>> THEN <<>>
    ELSE LET h == Strip(Head(groups))
         IN  (IF h = <<>> THEN <<>> ELSE <<h>>) \o NonEmptyStripped(Tail(groups))

\* A parser that keeps whatever part it could match (a partial parse).
ParseLlmOutputPartial(s) ==
    LET summary_match == SummaryMatch(s)
        concepts_match == ConceptsMatch(s)
    IN  IF concepts_match # NoValue
        THEN [summary |-> IF summary_match # NoValue
                          THEN Strip(summary_match.group) ELSE s,
              key_concepts |-> NonEmptyStripped(FindAll(Strip(concepts_match.group)))]
        ELSE [summary |-> s, key_concepts |-> <<>>]

\* The whole method.  The try/except around the body turns any exception
\* into the fallback value, which is also the value of the else branch.
ParseLlmOutput(s) ==
    LET summary_match == SummaryMatch(s)
        concepts_match == ConceptsMatch(s)
    IN  IF summary_match # NoValue /\ concepts_match # NoValue
        THEN [summary |-> Strip(summary_match.group),
              key_concepts |-> NonEmptyStripped(FindAll(Strip(concepts_match.group)))]
        ELSE [summary |-> s, key_concepts |-> <<>>]

(***************************************************************************)
(* Specification of the parser alone: every raw output up to MaxRaw        *)
(* fragments, then the call.                                               *)
(***************************************************************************)
RawAlphabet ==
    FinalSummaryMarkers \cup KeyConceptsMarkers \cup {"x", " ", "\n", "-", "1", "."}

ParseInit ==
    /\ llm_output \in SeqsUpTo(RawAlphabet, MaxRaw)
    /\ parsed = NoValue
    /\ chunk_size = MaxChunkSize
    /\ chunk_overlap = 0
    /\ pc = "parse"
    /\ SplitterIdle
    /\ PipelineIdle
    /\ RoutesIdle

ParseCall ==
    /\ pc = "parse"
    /\ parsed' = ParseLlmOutput(llm_output)
    /\ pc' = "parsed"
    /\ UNCHANGED <<llm_output, configVars, splitVars, pipelineVars, routeVars>>

ParseNext == ParseCall

SpecParse == ParseInit /\ [][ParseNext]_vars

(***************************************************************************)
(* Claims about the parser (checked under SpecParse).                      *)
(***************************************************************************)

\* Some FINAL SUMMARY: marker is followed, later, by a KEY CONCEPTS: marker.
HasBothMarkersInOrder(s) ==
    \E i, j \in 1..Len(s) :
        i < j /\ s[i] \in FinalSummaryMarkers /\ s[j] \in KeyConceptsMarkers

IsSummaryResult(r) == DOMAIN r = {"summary", "key_concepts"}

\* C2: the parser always returns a result; when FINAL SUMMARY: or
\* KEY CONCEPTS: is missing (also when KEY CONCEPTS: stands only before
\* FINAL SUMMARY:), the summary is the whole raw string, untrimmed, and
\* key_concepts is empty.
C2_FallbackVerbatim ==
    pc = "parsed" =>
        /\ IsSummaryResult(parsed)
        /\ ~HasBothMarkersInOrder(llm_output) =>
              parsed = [summary |-> llm_output, key_concepts |-> <<>>]

\* A parsed output that starts with a blank, holds a bullet line, and has
\* its only KEY CONCEPTS: before its FINAL SUMMARY:.
C2_Witness ==
    /\ pc = "parsed"
    /\ ~HasBothMarkersInOrder(llm_output)
    /\ Len(llm_output) >= 4
    /\ llm_output[1] = " "
    /\ \E i, j, k \in 1..Len(llm_output) :
          /\ i < k /\ k < j
          /\ llm_output[i] \in KeyConceptsMarkers
          /\ llm_output[k] = "-"
          /\ llm_output[j] \in FinalSummaryMarkers

\* The first FINAL SUMMARY: and the first KEY CONCEPTS: after it (1-based).
FirstFinalSummary(s) == SetMin({i \in 1..Len(s) : s[i] \in FinalSummaryMarkers})
NextKeyConcepts(s, i) ==
    SetMin({j \in (i + 1)..Len(s) : s[j] \in KeyConceptsMarkers})

\* C3: with FINAL SUMMARY: followed later by KEY CONCEPTS:, the summary is
\* the trimmed text between the first FINAL SUMMARY: and the next
\* KEY CONCEPTS:, and the key concepts come from the text after that same
\* KEY CONCEPTS: marker, not from an earlier one.
C3_SameMarkerSpans ==
    (pc = "parsed" /\ HasBothMarkersInOrder(llm_output)) =>
        LET i == FirstFinalSummary(llm_output)
            j == NextKeyConcepts(llm_output, i)
        IN  /\ parsed.summary = Strip(SubSeq(llm_output, i + 1, j - 1))
            /\ parsed.key_concepts =
                  NonEmptyStripped(FindAll(Strip(SubSeq(llm_output, j + 1, Len(llm_output)))))

\* The lines of t (split at "\n").
RECURSIVE Lines(_)
Lines(t) ==
    LET nls == {k \in 1..Len(t) : t[k] = "\n"}
    IN  IF nls = {} THEN <<t>>
        ELSE <<SubSeq(t, 1, SetMin(nls) - 1)>> \o Lines(SubSeq(t, SetMin(nls) + 1, Len(t)))

\* Line by line: the trimmed remainder of every line that (after leading
\* blanks) begins with a bullet or numeric-dot marker, empty remainders dropped.
RECURSIVE BulletLineRemainders(_)
BulletLineRemainders(lines) ==
    IF lines = <<>> THEN <<>>
    ELSE LET l == Strip(Head(lines))
             b == BulletEnd(l, 0)
             r == IF b = -1 THEN <<>> ELSE Strip(Slice(l, b, Len(l)))
         IN  (IF r = <<>> THEN <<>> ELSE <<r>>) \o BulletLineRemainders(Tail(lines))

\* C4: on the primary path key_concepts is, in line order, the trimmed
\* remainders of the lines of the concepts span that begin with a bullet or
\* numeric-dot marker; a line without a marker contributes nothing, also
\* after a bullet line with no text of its own.
C4_OnlyBulletLines ==
    (pc = "parsed" /\ HasBothMarkersInOrder(llm_output)) =>
        parsed.key_concepts =
            BulletLineRemainders(Lines(Strip(ConceptsMatch(llm_output).group)))

(***************************************************************************)
(* The text splitter (summarizer.py:104-109, called at line 190):          *)
(* RecursiveCharacterTextSplitter(chunk_size, chunk_overlap,               *)
(* length_function=len, add_start_index=True) with the library's defaults  *)
(* separators ["\n\n", "\n", " ", ""], keep_separator=True and             *)
(* strip_whitespace=True.  split_text returns plain strings;               *)
(* add_start_index only acts in create_documents, which is never called.   *)
(*                                                                         *)
(* Inside the splitter every character is a pair <<offset, char>>: the     *)
(* 0-based offset it has in the text split_text was called on.  The        *)
(* operators below read only the char; the offset rides along through the  *)
(* slicing and joining and tells where in the text a chunk comes from.     *)
(***************************************************************************)
Separators == << <<"\n", "\n">>, <<"\n">>, <<" ">>, <<>> >>

TagText(t) == [k \in 1..Len(t) |-> <<k - 1, t[k]>>]
Content(c) == [k \in 1..Len(c) |-> c[k][2]]
Offsets(c) == {c[k][1] : k \in 1..Len(c)}

RECURSIVE Flatten(_)
Flatten(ss) == IF ss = <<>> THEN <<>> ELSE Head(ss) \o Flatten(Tail(ss))

\* text.strip() on tagged text.
StripTagged(c) ==
    LET keep == {k \in 1..Len(c) : c[k][2] \notin Whitespace}
    IN  IF keep = {} THEN <<>> ELSE SubSeq(c, SetMin(keep), SetMax(keep))

\* A splitter that joins without stripping (strip_whitespace=False).
JoinDocsNoStrip(docs) == Flatten(docs)

\* TextSplitter._join_docs with separator "": the joined, stripped text;
\* <<>> stands for None (an empty text is not appended).
JoinDocs(docs) == StripTagged(Flatten(docs))

\* sep occurs in t at 1-based position m.
OccursAt(t, sep, m) ==
    /\ m + Len(sep) - 1 <= Len(t)
    /\ \A k \in 1..Len(sep) : t[m + k - 1][2] = sep[k]

\* The starts (1-based) of the leftmost non-overlapping occurrences of a
\* non-empty sep in t, from position from on: the matches of re.split.
RECURSIVE MatchStarts(_, _, _)
MatchStarts(t, sep, from) ==
    LET ms == {m \in from..Len(t) : OccursAt(t, sep, m)}
    IN  IF ms = {} THEN <<>>
        ELSE <<SetMin(ms)>> \o MatchStarts(t, sep, SetMin(ms) + Len(sep))

\* A split that leaves the separators out of the pieces (keep_separator=False)
\* while the pieces are still joined with "".
SplitTextWithRegexDropSep(t, sep) ==
    IF sep = <<>> THEN [k \in 1..Len(t) |-> <<t[k]>>]
    ELSE LET ms == MatchStarts(t, sep, 1)
             bounds == ms \o <<Len(t) + 1>>
             first == SubSeq(t, 1, bounds[1] - 1)
             rest == [k \in 1..Len(ms) |->
                         SubSeq(t, bounds[k] + Len(sep), bounds[k + 1] - 1)]
         IN  SelectSeq(<<first>> \o rest, LAMBDA x : x # <<>>)

\* _split_text_with_regex(text, separator, keep_separator=True): each
\* separator stays at the front of the piece that follows it; list(text)
\* for the empty separator; empty pieces are dropped.
SplitTextWithRegex(t, sep) ==
    IF sep = <<>> THEN [k \in 1..Len(t) |-> <<t[k]>>]
    ELSE LET ms == MatchStarts(t, sep, 1)
             bounds == ms \o <<Len(t) + 1>>
             first == SubSeq(t, 1, bounds[1] - 1)
             rest == [k \in 1..Len(ms) |-> SubSeq(t, bounds[k], bounds[k + 1] - 1)]
         IN  (IF first = <<>> THEN <<>> ELSE <<first>>) \o rest

\* A merge that carries every piece of the finished chunk over into the next
\* one (the while loop never pops).
PopFrontKeepAll(current_doc, total, len) ==
    [current_doc |-> current_doc, total |-> total]

\* The while loop of _merge_splits: drop pieces from the front of
\* current_doc while it is longer than chunk_overlap, or while it is
\* non-empty and the next piece (of length len) still does not fit.
RECURSIVE PopFront(_, _, _)
PopFront(current_doc, total, len) ==
    IF total > chunk_overlap \/ (total + len > chunk_size /\ total > 0)
    THEN PopFront(Tail(current_doc), total - Len(Head(current_doc)), len)
    ELSE [current_doc |-> current_doc, total |-> total]

\* TextSplitter._merge_splits(splits, separator="") from piece k on;
\* separator_len is 0 because keep_separator=True joins with "".
RECURSIVE MergeFrom(_, _, _, _, _)
MergeFrom(splits, k, docs, current_doc, total) ==
    IF k > Len(splits)
    THEN LET doc == JoinDocs(current_doc)
         IN  IF doc = <<>> THEN docs ELSE Append(docs, doc)
    ELSE LET d == splits[k]
             len == Len(d)
         IN  IF total + len > chunk_size /\ Len(current_doc) > 0
             THEN LET doc == JoinDocs(current_doc)
                      docs2 == IF doc = <<>> THEN docs ELSE Append(docs, doc)
                      kept == PopFront(current_doc, total, len)
                  IN  MergeFrom(splits, k + 1, docs2,
                                Append(kept.current_doc, d), kept.total + len)
             ELSE MergeFrom(splits, k + 1, docs, Append(current_doc, d), total + len)

MergeSplits(splits) == MergeFrom(splits, 1, <<>>, <<>>, 0)

\* A pick that leaves no separator for the pieces that are still too long
\* (no recursion into a finer separator).
PickSeparatorCoarse(t, separators) ==
    LET hits == {i \in 1..Len(separators) :
                    separators[i] = <<>> \/ MatchStarts(t, separators[i], 1) # <<>>}
    IN  IF hits = {}
        THEN [separator |-> separators[Len(separators)], new_separators |-> <<>>]
        ELSE [separator |-> separators[SetMin(hits)], new_separators |-> <<>>]

\* The separator _split_text picks: the first of separators that is empty
\* or occurs in the text (the last one if none does), with the separators
\* left for the recursion.
PickSeparator(t, separators) ==
    LET hits == {i \in 1..Len(separators) :
                    separators[i] = <<>> \/ MatchStarts(t, separators[i], 1) # <<>>}
    IN  IF hits = {}
        THEN [separator |-> separators[Len(separators)], new_separators |-> <<>>]
        ELSE LET i == SetMin(hits)
             IN  [separator |-> separators[i],
                  new_separators |-> IF separators[i] = <<>> THEN <<>>
                                     ELSE SubSeq(separators, i + 1, Len(separators))]

\* RecursiveCharacterTextSplitter._split_text(text, separators); the loop
\* over the pieces runs from piece k on with the chunks and the run of
\* short pieces (_good_splits) collected so far.
RECURSIVE SplitText(_, _)
RECURSIVE SplitLoop(_, _, _, _, _)
SplitLoop(splits, new_separators, k, final_chunks, good_splits) ==
    IF k > Len(splits)
    THEN IF good_splits # <<>> THEN final_chunks \o MergeSplits(good_splits)
         ELSE final_chunks
    ELSE LET s == splits[k]
         IN  IF Len(s) < chunk_size
             THEN SplitLoop(splits, new_separators, k + 1, final_chunks,
                            Append(good_splits, s))
             ELSE LET merged == IF good_splits # <<>>
                                THEN final_chunks \o MergeSplits(good_splits)
                                ELSE final_chunks
                      more == IF new_separators = <<>> THEN <<s>>
                              ELSE SplitText(s, new_separators)
                  IN  SplitLoop(splits, new_separators, k + 1, merged \o more, <<>>)

SplitText(t, separators) ==
    LET pick == PickSeparator(t, separators)
    IN  SplitLoop(SplitTextWithRegex(t, pick.separator), pick.new_separators,
                  1, <<>>, <<>>)

\* The recursive calls self._split_text(s, new_separators) made, directly
\* or further down, by _split_text(t, separators): for each, the piece it
\* is made on, the separators it is given and the separators of its caller.
RECURSIVE SplitCalls(_, _)
SplitCalls(t, separators) ==
    LET pick == PickSeparator(t, separators)
        splits == SplitTextWithRegex(t, pick.separator)
        long == {k \in 1..Len(splits) :
                    Len(splits[k]) >= chunk_size /\ pick.new_separators # <<>>}
    IN  {[piece |-> splits[k], separators |-> pick.new_separators,
          caller |-> separators] : k \in long}
        \cup UNION {SplitCalls(splits[k], pick.new_separators) : k \in long}

\* text_splitter.split_text(t), the chunks still carrying their offsets.
SplitTextTagged(t) == SplitText(TagText(t), Separators)

(***************************************************************************)
(* Specification of the splitter alone.  The code fixes chunk_size = 4000  *)
(* and chunk_overlap = 200; here they range over small values with         *)
(* chunk_overlap < chunk_size, so that texts longer than a chunk are       *)
(* within reach.                                                           *)
(***************************************************************************)
TextAlphabet == {"a", " ", "\n"}

SplitInit ==
    /\ chunk_size \in 1..MaxChunkSize
    /\ chunk_overlap \in 0..(chunk_size - 1)
    /\ text \in SeqsUpTo(TextAlphabet, MaxText)
    /\ chunks = <<>>
    /\ pc = "split"
    /\ ParserIdle
    /\ PipelineIdle
    /\ RoutesIdle

SplitCall ==
    /\ pc = "split"
    /\ chunks' = SplitTextTagged(text)
    /\ pc' = "split_returned"
    /\ UNCHANGED <<configVars, text, parseVars, pipelineVars, routeVars>>

SplitNext == SplitCall

SpecSplit == SplitInit /\ [][SplitNext]_vars

(***************************************************************************)
(* Claims about the splitter (checked under SpecSplit).                    *)
(***************************************************************************)
\* C9 as stated, for the texts that hold a non-whitespace character: a
\* text no longer than chunk_size comes back as exactly one chunk, equal to
\* the text, at start offset 0.
C9_SingleChunkEqualsText ==
    (pc = "split_returned" /\ Len(text) <= chunk_size /\ Strip(text) # <<>>) =>
        /\ Len(chunks) = 1
        /\ Content(chunks[1]) = text
        /\ chunks[1][1][1] = 0

\* C9, amended: a text no longer than chunk_size (chunk_size >= 2) comes
\* back as exactly one chunk, the text with its leading and trailing
\* whitespace removed, starting at the offset of the first non-whitespace
\* character; an empty or all-whitespace text gives no chunk.
C9_SingleChunkStripped ==
    (pc = "split_returned" /\ Len(text) <= chunk_size /\ chunk_size >= 2) =>
        IF Strip(text) = <<>> THEN chunks = <<>>
        ELSE /\ Len(chunks) = 1
             /\ Content(chunks[1]) = Strip(text)
             /\ chunks[1][1][1] = SkipWs(text, 0)

\* A short text with a leading blank, returned as one chunk.
C9_Witness ==
    /\ pc = "split_returned"
    /\ chunk_size >= 2
    /\ Len(text) = chunk_size
    /\ text[1] = " "
    /\ Len(chunks) = 1
    /\ chunks[1][1][1] = 1

\* The characters of chunk k that no earlier chunk holds.
NewPart(k) ==
    LET before == UNION {Offsets(chunks[j]) : j \in 1..(k - 1)}
    IN  SelectSeq(chunks[k], LAMBDA x : x[1] \notin before)

\* The chunks in sequence order, each without the part it shares with the
\* chunks before it.
Reassembled == Flatten([k \in 1..Len(chunks) |-> NewPart(k)])

\* C10 as stated, for the texts that neither start nor end with
\* whitespace: without the overlaps, the chunks concatenate to the text.
C10_LosslessReassembly ==
    (pc = "split_returned" /\ Strip(text) = text) => Content(Reassembled) = text

IsContiguous(c) ==
    \A k \in 1..Len(c) : c[k] = <<c[1][1] + k - 1, text[c[1][1] + k]>>

\* C10, amended: every chunk is a contiguous substring of the text, and
\* the chunks without their overlaps concatenate to the text with only
\* whitespace characters missing: the offsets kept are in ascending order
\* and every offset that is not kept holds whitespace.
C10_LosslessUpToWhitespace ==
    pc = "split_returned" =>
        /\ \A k \in 1..Len(chunks) : chunks[k] # <<>> /\ IsContiguous(chunks[k])
        /\ \A k \in 1..(Len(Reassembled) - 1) :
              Reassembled[k][1] < Reassembled[k + 1][1]
        /\ \A o \in 0..(Len(text) - 1) :
              o \notin Offsets(Reassembled) => text[o + 1] \in Whitespace

\* Two chunks that overlap, from a text that lost whitespace in the split.
C10_Witness ==
    /\ pc = "split_returned"
    /\ chunk_overlap >= 1
    /\ Len(chunks) >= 2
    /\ Content(Reassembled) # text
    /\ \E k \in 2..Len(chunks) : Len(NewPart(k)) < Len(chunks[k])

\* C11: every chunk is at most chunk_size + chunk_overlap characters long
\* and none is empty; an empty text gives the empty sequence of chunks.
C11_ChunkLengthBound ==
    pc = "split_returned" =>
        /\ \A k \in 1..Len(chunks) :
              Len(chunks[k]) >= 1 /\ Len(chunks[k]) <= chunk_size + chunk_overlap
        /\ text = <<>> => chunks = <<>>

\* A text longer than chunk_size split with an overlap into several chunks,
\* one of them as long as chunk_size, the last one sharing a piece with the
\* chunk before it.
C11_Witness ==
    /\ pc = "split_returned"
    /\ chunk_overlap >= 1
    /\ Len(text) > chunk_size + chunk_overlap
    /\ Len(chunks) >= 2
    /\ \E k \in 1..Len(chunks) : Len(chunks[k]) = chunk_size
    /\ Len(NewPart(Len(chunks))) < Len(chunks[Len(chunks)])

\* The separators from the i-th on.
SeparatorsFrom(i) == SubSeq(Separators, i, Len(Separators))

\* C15: split_text returns for every text, and its recursion is bounded:
\* every recursive call is given a proper, non-empty tail of its caller's
\* separators and a piece no longer than its caller's text; a call that
\* picks the empty separator splits into single characters and recurses no
\* further.  A run of characters longer than chunk_size is sliced, not
\* dropped and not returned whole: every non-whitespace character of the
\* text is in some chunk and no chunk is longer than chunk_size.
C15_SplitTerminates ==
    pc = "split_returned" =>
        /\ \A c \in SplitCalls(TagText(text), Separators) :
              /\ c.separators # <<>>
              /\ Len(c.separators) < Len(c.caller)
              /\ \E i \in 2..Len(Separators) : c.separators = SeparatorsFrom(i)
              /\ Len(c.piece) <= Len(text)
        /\ \A i \in 1..Len(Separators) :
              LET pick == PickSeparator(TagText(text), SeparatorsFrom(i))
              IN  /\ Len(pick.new_separators) < Len(SeparatorsFrom(i))
                  /\ pick.separator = <<>> =>
                        LET splits == SplitTextWithRegex(TagText(text), <<>>)
                        IN  /\ pick.new_separators = <<>>
                            /\ Len(splits) = Len(text)
                            /\ \A k \in 1..Len(splits) : Len(splits[k]) = 1
        /\ \A o \in 0..(Len(text) - 1) :
              text[o + 1] \notin Whitespace =>
                  \E k \in 1..Len(chunks) : o \in Offsets(chunks[k])
        /\ \A k \in 1..Len(chunks) : Len(chunks[k]) <= chunk_size

\* A text with a word longer than chunk_size, split by a recursion that
\* went from "\n" to " " and from " " to single characters.
C15_Witness ==
    /\ pc = "split_returned"
    /\ chunk_size = 2
    /\ \E o \in 1..(Len(text) - 2) : \A k \in o..(o + 2) : text[k] = "a"
    /\ \E c \in SplitCalls(TagText(text), Separators) : c.separators = SeparatorsFrom(3)
    /\ \E c \in SplitCalls(TagText(text), Separators) : c.separators = SeparatorsFrom(4)
    /\ Len(chunks) >= 3

(***************************************************************************)
(* summarize (summarizer.py:164-210) and the map-reduce chain it invokes   *)
(* (load_summarize_chain(llm, chain_type="map_reduce", map_prompt,         *)
(* combine_prompt), summarizer.py:92-98; chain.invoke at line 197).        *)
(*                                                                         *)
(* The chain is modelled as its configuration reads: one map-prompt call   *)
(* per input document, then one combine-prompt call over the map replies   *)
(* in document order.  The chain hands all map prompts to the model client *)
(* together and goes on only when it has every reply; whether the client   *)
(* runs them one after another or concurrently is its own matter, so       *)
(* issued map calls may return in any order here.  An exception of any     *)
(* call leaves chain.invoke at once.  A reply is identified by the         *)
(* position of its call in calls.                                          *)
(***************************************************************************)
Absent == [present |-> FALSE, value |-> <<>>]       \* key missing, or None
Given(t) == [present |-> TRUE, value |-> t]

\* Python truthiness of article_data.get(key).
Truthy(field) == field.present /\ field.value # <<>>

Articles ==
    [title : {Absent, Given(<<"t">>)},
     abstract : {Absent, Given(<<>>), Given(<<"a">>), Given(<<"a", " ">>)},
     full_text : {Absent, Given(<<"f">>)}]

TitlePrefix == <<"T", "i", "t", "l", "e", ":", " ">>
AbstractPrefix == <<"A", "b", "s", "t", "r", "a", "c", "t", ":", " ">>
FullTextPrefix == <<"F", "u", "l", "l", " ", "T", "e", "x", "t", ":", "\n">>

RECURSIVE JoinWith(_, _)
JoinWith(parts, sep) ==
    IF parts = <<>> THEN <<>>
    ELSE IF Len(parts) = 1 THEN parts[1]
    ELSE parts[1] \o sep \o JoinWith(Tail(parts), sep)

\* _prepare_input_text
PrepareInputText(a) ==
    LET text_parts ==
            (IF Truthy(a.title) THEN <<TitlePrefix \o a.title.value>> ELSE <<>>)
            \o (IF Truthy(a.abstract) THEN <<AbstractPrefix \o a.abstract.value>> ELSE <<>>)
            \o (IF Truthy(a.full_text) THEN <<FullTextPrefix \o a.full_text.value>> ELSE <<>>)
    IN  JoinWith(text_parts, <<"\n", "\n">>)

\* The values summarize returns on its error paths.
InsufficientDataResult ==
    [summary |-> <<"Error: Insufficient article data provided for summarization.">>,
     key_concepts |-> <<>>]
NoTextResult ==
    [summary |-> <<"Error: No text content available for summarization.">>,
     key_concepts |-> <<>>]
NoOutputResult ==
    [summary |-> <<"Error: Summarization process failed to produce output.">>,
     key_concepts |-> <<>>]
InternalErrorResult(e) ==
    [summary |-> <<"Error: Summarization failed due to an internal error (", e, ").">>,
     key_concepts |-> <<>>]

\* type(e).__name__ of what a call to the model may raise.
ExceptionTypes == {"APIConnectionError", "RateLimitError"}

\* What the combine-prompt call may return (output_text).
ReduceReplies ==
    { <<>>,
      <<"x">>,
      <<"FINAL SUMMARY:", "\n", "x", "\n", "KEY CONCEPTS:", "\n", "-", " ", "x">>,
      <<"key concepts:", "-", "x", "FINAL SUMMARY:", "x">>,
      <<"FINAL SUMMARY:", "KEY CONCEPTS:">>,
      <<"Error: Insufficient article data provided for summarization.">> }

Call(kind, chunk, input) == [kind |-> kind, chunk |-> chunk, input |-> input]
CallsOfKind(kind) == SelectSeq(calls, LAMBDA c : c.kind = kind)
NumChunks == Len(texts)

\* A guard that lets a missing abstract through.
LacksArticleOnly(a) == a = NoValue

\* summarize, line 179: not article_data or not article_data.get('abstract')
LacksAbstract(a) == a = NoValue \/ ~Truthy(a.abstract)

\* A chain that starts combining once some map call has returned.
SomeMapReturned == \E i \in 1..NumChunks : map_status[i] = "returned"

\* The chain combines when it has the reply of every map call.
AllMapsReturned == \A i \in 1..NumChunks : map_status[i] = "returned"

\* A chain that combines the replies in the order they came in.
RepliesAsCompleted == [k \in 1..Len(completion_order) |-> map_results[completion_order[k]]]

\* The chain's input to the combine prompt: the map replies, one per
\* document, in document order.
CombineInput == map_results

PipelineInit ==
    /\ article_data \in Articles \cup {NoValue}
    /\ chunk_size = PipelineChunkSize
    /\ chunk_overlap = PipelineChunkOverlap
    /\ pc = "start"
    /\ input_text = <<>>
    /\ texts = <<>>
    /\ map_status = <<>>
    /\ map_results = <<>>
    /\ completion_order = <<>>
    /\ calls = <<>>
    /\ llm_output_text = <<>>
    /\ result = NoValue
    /\ ret = "running"
    /\ failed_stage = "none"
    /\ ParserIdle
    /\ SplitterIdle
    /\ RoutesIdle

\* Lines 179-181: the early return on missing data.
CheckArticle ==
    /\ pc = "start"
    /\ IF LacksAbstract(article_data)
       THEN /\ result' = InsufficientDataResult
            /\ ret' = "returned"
            /\ pc' = "done"
       ELSE /\ pc' = "checked"
            /\ UNCHANGED <<result, ret>>
    /\ UNCHANGED <<article_data, input_text, texts, chainVars, calls,
                   llm_output_text, failed_stage, configVars, parseVars, splitVars, routeVars>>

\* Lines 183-187: the prepared text, and the return when it is blank.
Prepare ==
    /\ pc = "checked"
    /\ input_text' = PrepareInputText(article_data)
    /\ IF Strip(input_text') = <<>>
       THEN /\ result' = NoTextResult
            /\ ret' = "returned"
            /\ pc' = "done"
       ELSE /\ pc' = "prepared"
            /\ UNCHANGED <<result, ret>>
    /\ UNCHANGED <<article_data, texts, chainVars, calls, llm_output_text,
                   failed_stage, configVars, parseVars, splitVars, routeVars>>

\* A summarize that hands the chunks to the combine prompt as they are,
\* with no map call (a "stuff" chain).
SplitReturnStuff ==
    /\ pc = "prepared"
    /\ LET tagged == SplitTextTagged(input_text)
       IN  /\ texts' = [k \in 1..Len(tagged) |-> Content(tagged[k])]
           /\ map_status' = [k \in 1..Len(tagged) |-> "returned"]
           /\ map_results' = [k \in 1..Len(tagged) |-> 0]
    /\ calls' = Append(calls, Call("split", 0, <<>>))
    /\ pc' = "chunked"
    /\ UNCHANGED <<article_data, input_text, completion_order, llm_output_text,
                   result, ret, failed_stage, configVars, parseVars, splitVars, routeVars>>

\* Lines 190-193: split_text returns the chunks.
SplitReturn ==
    /\ pc = "prepared"
    /\ LET tagged == SplitTextTagged(input_text)
       IN  /\ texts' = [k \in 1..Len(tagged) |-> Content(tagged[k])]
           /\ map_status' = [k \in 1..Len(tagged) |-> "pending"]
           /\ map_results' = [k \in 1..Len(tagged) |-> 0]
    /\ calls' = Append(calls, Call("split", 0, <<>>))
    /\ pc' = "chunked"
    /\ UNCHANGED <<article_data, input_text, completion_order, llm_output_text,
                   result, ret, failed_stage, configVars, parseVars, splitVars, routeVars>>

\* Line 190 stands before the try of line 195: an exception of split_text
\* leaves summarize.
SplitRaise ==
    /\ pc = "prepared"
    /\ calls' = Append(calls, Call("split", 0, <<>>))
    /\ ret' = "raised"
    /\ failed_stage' = "split"
    /\ pc' = "done"
    /\ UNCHANGED <<article_data, input_text, texts, chainVars, llm_output_text,
                   result, configVars, parseVars, splitVars, routeVars>>

\* A chain that may send the map prompt of a chunk again while its call is
\* still unanswered (a retry).
MapIssueAgain(i) ==
    /\ pc = "chunked"
    /\ map_status[i] \in {"pending", "outstanding"}
    /\ \A j \in 1..(i - 1) : map_status[j] # "pending"
    /\ Len(calls) <= NumChunks + 1
    /\ map_status' = [map_status EXCEPT ![i] = "outstanding"]
    /\ calls' = Append(calls, Call("map", i, <<>>))
    /\ UNCHANGED <<pc, article_data, input_text, texts, map_results,
                   completion_order, llm_output_text, result, ret, failed_stage,
                   configVars, parseVars, splitVars, routeVars>>

\* chain.invoke, map step: the map prompt of chunk i goes to the model.
MapIssue(i) ==
    /\ pc = "chunked"
    /\ map_status[i] = "pending"
    /\ \A j \in 1..(i - 1) : map_status[j] # "pending"
    /\ map_status' = [map_status EXCEPT ![i] = "outstanding"]
    /\ calls' = Append(calls, Call("map", i, <<>>))
    /\ UNCHANGED <<pc, article_data, input_text, texts, map_results,
                   completion_order, llm_output_text, result, ret, failed_stage,
                   configVars, parseVars, splitVars, routeVars>>

\* The position in calls of the map call made for chunk i.
MapCallOf(i) == CHOOSE k \in 1..Len(calls) : calls[k].kind = "map" /\ calls[k].chunk = i

\* The map call of chunk i returns its reply.
MapReturn(i) ==
    /\ pc = "chunked"
    /\ map_status[i] = "outstanding"
    /\ map_status' = [map_status EXCEPT ![i] = "returned"]
    /\ map_results' = [map_results EXCEPT ![i] = MapCallOf(i)]
    /\ completion_order' = Append(completion_order, i)
    /\ UNCHANGED <<pc, article_data, input_text, texts, calls, llm_output_text,
                   result, ret, failed_stage, configVars, parseVars, splitVars, routeVars>>

\* A chain that swallows the failure of a map call and goes on with an
\* empty reply for that chunk (a partial-success mode).
MapRaiseSwallowed(i, e) ==
    /\ pc = "chunked"
    /\ map_status[i] = "outstanding"
    /\ map_status' = [map_status EXCEPT ![i] = "returned"]
    /\ map_results' = [map_results EXCEPT ![i] = MapCallOf(i)]
    /\ completion_order' = Append(completion_order, i)
    /\ failed_stage' = "map"
    /\ UNCHANGED <<pc, article_data, input_text, texts, calls, llm_output_text,
                   result, ret, configVars, parseVars, splitVars, routeVars>>

\* The map call of chunk i raises e: chain.invoke raises, and the except
\* clause of lines 208-210 returns the internal-error value.
MapRaise(i, e) ==
    /\ pc = "chunked"
    /\ map_status[i] = "outstanding"
    /\ result' = InternalErrorResult(e)
    /\ ret' = "returned"
    /\ failed_stage' = "map"
    /\ pc' = "done"
    /\ UNCHANGED <<article_data, input_text, texts, chainVars, calls,
                   llm_output_text, configVars, parseVars, splitVars, routeVars>>

\* chain.invoke, reduce step: the combine prompt goes to the model.
ReduceIssue ==
    /\ pc = "chunked"
    /\ AllMapsReturned
    /\ calls' = Append(calls, Call("reduce", 0, CombineInput))
    /\ pc' = "reducing"
    /\ UNCHANGED <<article_data, input_text, texts, chainVars, llm_output_text,
                   result, ret, failed_stage, configVars, parseVars, splitVars, routeVars>>

\* Line 198: chain.invoke returns and output_text is read.
ReduceReturn(raw) ==
    /\ pc = "reducing"
    /\ llm_output_text' = raw
    /\ pc' = "reduced"
    /\ UNCHANGED <<article_data, input_text, texts, chainVars, calls, result, ret,
                   failed_stage, configVars, parseVars, splitVars, routeVars>>

\* The combine call raises e; lines 208-210 return the internal-error value.
ReduceRaise(e) ==
    /\ pc = "reducing"
    /\ result' = InternalErrorResult(e)
    /\ ret' = "returned"
    /\ failed_stage' = "reduce"
    /\ pc' = "done"
    /\ UNCHANGED <<article_data, input_text, texts, chainVars, calls,
                   llm_output_text, configVars, parseVars, splitVars, routeVars>>

\* A summarize that hands whatever output_text it got to the parser, the
\* empty one too.
FinishParseAlways ==
    /\ pc = "reduced"
    /\ result' = ParseLlmOutput(llm_output_text)
    /\ calls' = Append(calls, Call("parse", 0, llm_output_text))
    /\ ret' = "returned"
    /\ pc' = "done"
    /\ UNCHANGED <<article_data, input_text, texts, chainVars,
                   llm_output_text, failed_stage, configVars, parseVars, splitVars, routeVars>>

\* Lines 200-206: the empty-output return, else _parse_llm_output is called
\* on the output and its value returned.
Finish ==
    /\ pc = "reduced"
    /\ IF llm_output_text = <<>>
       THEN /\ result' = NoOutputResult
            /\ UNCHANGED calls
       ELSE /\ result' = ParseLlmOutput(llm_output_text)
            /\ calls' = Append(calls, Call("parse", 0, llm_output_text))
    /\ ret' = "returned"
    /\ pc' = "done"
    /\ UNCHANGED <<article_data, input_text, texts, chainVars,
                   llm_output_text, failed_stage, configVars, parseVars, splitVars, routeVars>>

Next ==
    \/ CheckArticle
    \/ Prepare
    \/ SplitReturn
    \/ SplitRaise
    \/ \E i \in 1..NumChunks : MapIssue(i)
    \/ \E i \in 1..NumChunks : MapReturn(i)
    \/ \E i \in 1..NumChunks, e \in ExceptionTypes : MapRaise(i, e)
    \/ ReduceIssue
    \/ \E raw \in ReduceReplies : ReduceReturn(raw)
    \/ \E e \in ExceptionTypes : ReduceRaise(e)
    \/ Finish

Init == PipelineInit

Spec == Init /\ [][Next]_vars

(***************************************************************************)
(* Claims about the pipeline (checked under Spec).                         *)
(***************************************************************************)
AbstractMissing ==
    IF article_data = NoValue THEN TRUE
    ELSE ~article_data.abstract.present \/ article_data.abstract.value = <<>>

\* C1: with the abstract absent or empty (or no document at all), summarize
\* makes no call to the splitter or to the model, and ends by returning the
\* insufficient-data error value.
C1_NoAbstractNoCalls ==
    AbstractMissing =>
        /\ calls = <<>>
        /\ pc \in {"start", "done"}
        /\ pc = "done" => (ret = "returned" /\ result = InsufficientDataResult)

\* A finished call on a document that has a title and an empty abstract.
C1_Witness ==
    /\ pc = "done"
    /\ article_data # NoValue
    /\ article_data.abstract = Given(<<>>)
    /\ Truthy(article_data.title)
    /\ result = InsufficientDataResult

\* What summarize returns when the reduce step fails.
ReduceFailureResults ==
    {InternalErrorResult(e) : e \in ExceptionTypes} \cup {NoOutputResult}

Succeeded ==
    pc = "done" /\ ret = "returned" /\ failed_stage = "none" /\ llm_output_text # <<>>

C7_ReduceBarrier ==
    CallsOfKind("reduce") # <<>> =>
        \A i \in 1..NumChunks : map_status[i] = "returned"

\* The reduce call is under way after map calls that returned out of order.
C7_Witness ==
    /\ pc = "reducing"
    /\ NumChunks >= 2
    /\ completion_order[1] # 1

\* C8: summarize always ends by returning a result value to its caller,
\* never by propagating an exception, whatever the splitter and the model do.
C8_AlwaysReturns ==
    pc = "done" => (ret = "returned" /\ IsSummaryResult(result))

\* The number of map calls made for chunk i.
MapCallsFor(i) == Cardinality({k \in 1..Len(calls) : calls[k] = Call("map", i, <<>>)})

C13_ReduceFailureReported ==
    /\ failed_stage = "reduce" =>
          /\ pc = "done" /\ ret = "returned"
          /\ \E e \in ExceptionTypes : result = InternalErrorResult(e)
          /\ CallsOfKind("parse") = <<>>
    /\ (pc = "done" /\ CallsOfKind("reduce") # <<>> /\ failed_stage = "none"
          /\ llm_output_text = <<>>) =>
          /\ ret = "returned"
          /\ result = NoOutputResult
          /\ CallsOfKind("parse") = <<>>
    /\ \A k \in 1..Len(calls) : calls[k].kind = "parse" => calls[k].input # <<>>

\* The reduce call returned an empty output after several map calls, and
\* summarize has returned.
C13_Witness ==
    /\ pc = "done"
    /\ NumChunks >= 2
    /\ CallsOfKind("reduce") # <<>>
    /\ failed_stage = "none"
    /\ llm_output_text = <<>>
    /\ result = NoOutputResult

\* The pipeline state an invocation is in: EMPTY until the text is prepared,
\* PREPARED until split_text has returned, CHUNKED while a map call is
\* pending or outstanding, MAPPED from the last map reply until the reduce
\* call has returned, REDUCED until summarize returns, PARSED when it has
\* returned what the parser gave, FAILED when it has ended in any other way.
Stage ==
    CASE pc \in {"start", "checked"} -> "EMPTY"
      [] pc = "prepared" -> "PREPARED"
      [] pc = "chunked" -> IF AllMapsReturned THEN "MAPPED" ELSE "CHUNKED"
      [] pc = "reducing" -> "MAPPED"
      [] pc = "reduced" -> "REDUCED"
      [] pc = "done" -> IF CallsOfKind("parse") # <<>> THEN "PARSED" ELSE "FAILED"

StageAfter(st) ==
    CASE st = "EMPTY" -> "PREPARED"
      [] st = "PREPARED" -> "CHUNKED"
      [] st = "CHUNKED" -> "MAPPED"
      [] st = "MAPPED" -> "REDUCED"
      [] st = "REDUCED" -> "PARSED"
      [] OTHER -> st

\* C14: every step of an invocation starts in a non-terminal state and
\* stays in its state, moves to the next state of the order EMPTY, PREPARED,
\* CHUNKED, MAPPED, REDUCED, PARSED, or moves to FAILED; so no state is
\* skipped or revisited, PARSED is entered only from REDUCED, and in PARSED
\* and FAILED no step is taken any more.
C14_StageOrder ==
    [][ /\ Stage \notin {"PARSED", "FAILED"}
        /\ Stage' \in {Stage, StageAfter(Stage), "FAILED"}
        /\ Stage' = "PARSED" => Stage = "REDUCED" ]_vars

\* An invocation that went through every state: it has returned the parsed
\* output after a split, one map call per chunk and the reduce call.
C14_Witness ==
    /\ Stage = "PARSED"
    /\ NumChunks >= 2
    /\ Len(calls) = NumChunks + 3
    /\ calls[1].kind = "split"
    /\ \A k \in 2..(NumChunks + 1) : calls[k].kind = "map"
    /\ calls[NumChunks + 2].kind = "reduce"
    /\ calls[NumChunks + 3].kind = "parse"

(***************************************************************************)
(* /api/summarize and get_summarizer (routes.py:8-15, 35-69).  main.py     *)
(* serves the app with app.run(), which handles every request in a thread  *)
(* of its own, so the handlers of several requests interleave between any  *)
(* two of their steps; the module-level summarizer is shared by them all.  *)
(* A thread's locals are in requests[t].  The call of summarize (line 52)  *)
(* is taken as one step with any of the outcomes the pipeline above has    *)
(* for the article.                                                        *)
(***************************************************************************)
Threads == 1..MaxRequests

\* What extract_article may return: an article with an abstract, one without.
RouteArticles ==
    {[title |-> Given(<<"t">>), abstract |-> Given(<<"a">>), full_text |-> Absent],
     [title |-> Given(<<"t">>), abstract |-> Absent, full_text |-> Absent]}

\* The ways summarize(a) ends: how it leaves (ret), the value it returns
\* and the pipeline state it ends in.
SummarizeOutcomes(a) ==
    IF LacksAbstract(a)
    THEN {[ret |-> "returned", result |-> InsufficientDataResult, stage |-> "FAILED"]}
    ELSE {[ret |-> "raised", result |-> NoValue, stage |-> "FAILED"]}
         \cup {[ret |-> "returned", result |-> InternalErrorResult(e), stage |-> "FAILED"] :
                  e \in ExceptionTypes}
         \cup {[ret |-> "returned", result |-> NoOutputResult, stage |-> "FAILED"]}
         \cup {[ret |-> "returned", result |-> ParseLlmOutput(raw), stage |-> "PARSED"] :
                  raw \in ReduceReplies \ {<<>>}}

\* Every end of the pipeline is one of SummarizeOutcomes.
OutcomesCoverSummarize ==
    pc = "done" =>
        [ret |-> ret, result |-> result, stage |-> Stage] \in SummarizeOutcomes(article_data)

\* jsonify(...) with its status code.
ErrorResponse(code, message) == [code |-> code, error |-> message]
SuccessResponse(r) ==
    [code |-> 200, status |-> "success", summary |-> r.summary,
     key_concepts |-> r.key_concepts]

NewRequest ==
    [pc |-> "received", article_data |-> NoValue, new |-> 0,
     article_summarizer |-> 0, outcome |-> NoValue, response |-> NoValue]

RoutesInit ==
    /\ summarizer = 0
    /\ instances = 0
    /\ api_key \in BOOLEAN
    /\ requests = [t \in Threads |-> NewRequest]
    /\ chunk_size = PipelineChunkSize
    /\ chunk_overlap = PipelineChunkOverlap
    /\ pc = "serving"
    /\ ParserIdle
    /\ SplitterIdle
    /\ PipelineIdle

\* Thread t goes on with the fields of upd changed and the globals as given.
Step(t, upd) ==
    /\ requests' = [requests EXCEPT ![t] = [f \in DOMAIN @ |->
                        IF f \in DOMAIN upd THEN upd[f] ELSE @[f]]]
    /\ UNCHANGED <<api_key, pc, configVars, parseVars, splitVars, pipelineVars>>

\* Lines 39-41: no article_url in the request body.
BadRequest(t) ==
    /\ requests[t].pc = "received"
    /\ Step(t, [pc |-> "done",
                response |-> ErrorResponse(400, "Missing article_url in request body")])
    /\ UNCHANGED <<summarizer, instances>>

\* Line 46: extract_article returns the article.
ExtractArticle(t, a) ==
    /\ requests[t].pc = "received"
    /\ Step(t, [pc |-> "get_summarizer", article_data |-> a])
    /\ UNCHANGED <<summarizer, instances>>

\* Line 46: extract_article raises (line 24, or the extractor fails); the
\* except clause of lines 68-69 answers 500.
ExtractRaise(t) ==
    /\ requests[t].pc = "received"
    /\ Step(t, [pc |-> "done",
                response |-> ErrorResponse(500, "Unsupported URL format")])
    /\ UNCHANGED <<summarizer, instances>>

\* get_summarizer, line 12: the test of the global.
GetSummarizerTest(t) ==
    /\ requests[t].pc = "get_summarizer"
    /\ Step(t, [pc |-> IF summarizer = 0 THEN "construct" ELSE "return"])
    /\ UNCHANGED <<summarizer, instances>>

\* get_summarizer, lines 13-14, right-hand side: LlamaSummarizer(model_name)
\* gives a new object, or raises ValueError without GROQ_API_KEY
\* (summarizer.py:36-39), which lines 68-69 answer with 500.
Construct(t) ==
    /\ requests[t].pc = "construct"
    /\ IF api_key
       THEN /\ instances' = instances + 1
            /\ Step(t, [pc |-> "store", new |-> instances + 1])
       ELSE /\ UNCHANGED instances
            /\ Step(t, [pc |-> "done",
                        response |-> ErrorResponse(500,
                            "GROQ_API_KEY must be set in environment variables")])
    /\ UNCHANGED summarizer

\* get_summarizer, line 14: the new object is stored in the global.
Store(t) ==
    /\ requests[t].pc = "store"
    /\ summarizer' = requests[t].new
    /\ Step(t, [pc |-> "return"])
    /\ UNCHANGED instances

\* get_summarizer, line 15, and line 49: the global is read and returned.
Return(t) ==
    /\ requests[t].pc = "return"
    /\ Step(t, [pc |-> "summarize", article_summarizer |-> summarizer])
    /\ UNCHANGED <<summarizer, instances>>

\* Lines 52-69: summarize ends as o; what it returned is answered with
\* status 'success', an exception with 500.
SummarizeAndRespond(t, o) ==
    /\ requests[t].pc = "summarize"
    /\ o \in SummarizeOutcomes(requests[t].article_data)
    /\ Step(t, [pc |-> "done", outcome |-> o,
                response |-> IF o.ret = "returned" THEN SuccessResponse(o.result)
                             ELSE ErrorResponse(500, "exception of summarize")])
    /\ UNCHANGED <<summarizer, instances>>

RoutesNext ==
    \E t \in Threads :
        \/ BadRequest(t)
        \/ \E a \in RouteArticles : ExtractArticle(t, a)
        \/ ExtractRaise(t)
        \/ GetSummarizerTest(t)
        \/ Construct(t)
        \/ Store(t)
        \/ Return(t)
        \/ \E o \in UNION {SummarizeOutcomes(a) : a \in RouteArticles} :
              SummarizeAndRespond(t, o)

SpecRoutes == RoutesInit /\ [][RoutesNext]_vars

(***************************************************************************)
(* Claims about the route (checked under SpecRoutes).                      *)
(***************************************************************************)
\* The summarizer objects get_summarizer has handed to the threads.
HandlesReturned ==
    {requests[t].article_summarizer : t \in Threads} \ {0}

\* C16: under every interleaving of the requests, at most one
\* LlamaSummarizer is constructed and every call of get_summarizer returns
\* that same object; when the construction raises, the global stays unset
\* and the request is answered with an error response.
C16_SingletonHandle ==
    /\ instances <= 1
    /\ Cardinality(HandlesReturned) <= 1
    /\ ~api_key =>
          /\ summarizer = 0
          /\ \A t \in Threads :
                (requests[t].pc = "done" /\ requests[t].article_data # NoValue) =>
                    requests[t].response.code = 500

\* First half of C17: no result returned after a successful parse equals
\* a result returned for a failure.
C17_SuccessNeverEqualsFailure ==
    \A t, u \in Threads :
        (/\ requests[t].outcome # NoValue
         /\ requests[u].outcome # NoValue
         /\ requests[t].outcome.stage = "PARSED"
         /\ requests[u].outcome.stage = "FAILED") =>
            requests[t].outcome.result # requests[u].outcome.result

\* Second half of C17: no response says status 'success' for an
\* invocation of summarize that ended in FAILED.
C17_NoSuccessStatusOnFailure ==
    \A t \in Threads :
        (requests[t].outcome # NoValue /\ requests[t].outcome.stage = "FAILED") =>
            ~(requests[t].response.code = 200 /\ requests[t].response.status = "success")

\* C17: every failure of summarize reaches the caller as a result that
\* differs from every success result, and /api/summarize never answers
\* status 'success' for an invocation that ended in FAILED.
C17_FailuresTagged ==
    C17_SuccessNeverEqualsFailure /\ C17_NoSuccessStatusOnFailure

====
